---- MODULE Spec2Model ----
(***************************************************************************)
(* A model of the builtin-symbol registry of mathics-core and of the       *)
(* "Global System Information" builtins of mathics/builtin/system.py that  *)
(* are dispatched through it, together with the symbol catalogue of        *)
(* mathics/core/systemsymbols.py.                                          *)
(*                                                                         *)
(* The handlers (eval, eval_set, evaluate, ...) are translated from        *)
(* system.py.  The interner, the definition store, rule registration, the  *)
(* dispatch engine and the evaluation loop live in mathics.core, outside   *)
(* the two files; they are modelled from sections 4.1-4.6 of the design    *)
(* description and are marked so where they are defined.                   *)
(***************************************************************************)
EXTENDS Integers, Sequences, FiniteSets, TLC

VARIABLES
    definitions,         \* the Definition Store: symbol name -> Definition
    registered,          \* log of register() calls, in call order
    have_facility,       \* TRUE iff sys has get/set_int_max_str_digits (Python >= 3.11)
    int_max_str_digits,  \* the interpreter's int/str conversion limit
    accepted,            \* value of the most recent assignment that went through
    environ,             \* os.environ: variable name -> value
    last,                \* outcome of the most recent dispatch call
    symbol_table,        \* the interner's table: fully-qualified name -> identity
    intern_lock,         \* the caller holding the interner's lock, or "" if free
    callers,             \* per concurrent caller of intern: where it is in the call
    interned,            \* what intern has returned: <<caller, name, identity>>
    raced,               \* names two callers were interning at once while absent
    loop,                \* the Evaluation Loop: state, expression, steps, messages
    previous,            \* the Stable result under re-evaluation, if any
    store_log,           \* the calls that changed the Definition Store, in call order
    store_before,        \* the most recent store operation and the store before it
    sys_argv,            \* sys.argv: the argument vector of the process
    sys_maxsize,         \* sys.maxsize, as its binary digits
    word,                \* $SystemWordLength's loop: position, size, result
    heap,                \* the objects of the interpreter: type, size, contents
    measured,            \* what MemoryInUse's sizeof has returned, if called
    catalogue            \* the import of systemsymbols.py: position, module globals

internVars == <<symbol_table, intern_lock, callers, interned, raced>>

loopVars == <<loop, previous>>

storeVars == <<store_log, store_before>>

hostVars == <<sys_argv, sys_maxsize, word, heap, measured, catalogue>>

vars == <<definitions, registered, have_facility, int_max_str_digits,
          accepted, environ, last, internVars, loopVars, storeVars, hostVars>>

(***************************************************************************)
(* Expressions: atoms (Symbol, String, Integer, Real) and compound         *)
(* expressions with a symbol head.  Every expression is a record of the    *)
(* same shape so that any two can be compared.  A symbol is written by     *)
(* its short name: Symbol("X") is the same symbol as the one named X in    *)
(* context System (systemsymbols.py, lines 20-21).  <1> in a message text  *)
(* is the slot of the first message argument.                              *)
(***************************************************************************)
Atom(k, s, n) == [k |-> k, s |-> s, n |-> n, args |-> <<>>]

Symbol(name) == Atom("Symbol", name, 0)

String(v) == Atom("String", v, 0)

Integer(v) == Atom("Integer", "", v)

Real(v) == Atom("Real", "", v)

Expression(head, args) == [k |-> "Expr", s |-> head, n |-> 0, args |-> args]

ListExpression(args) == Expression("List", args)

Integer0 == Integer(0)

IntegerM1 == Integer(-1)

SymbolFailed == Symbol("$Failed")

\* the None of Python: what a handler returns when it falls off its end.
NoneValue == Atom("None", "", 0)

\* A pattern is an expression that may hold blanks: Blank("") is _,
\* Blank("String") is _String.
Blank(h) == Atom("Blank", h, 0)

get_head_name(e) ==
    CASE e.k = "Expr" -> e.s
      [] e.k = "Symbol" -> "Symbol"
      [] e.k = "String" -> "String"
      [] e.k = "Integer" -> "Integer"
      [] e.k = "Real" -> "Real"
      [] OTHER -> ""

\* The Pattern Matcher capability: structural match of an expression
\* against a pattern.
RECURSIVE match(_, _)
match(p, e) ==
    IF p.k = "Blank" THEN p.s = "" \/ get_head_name(e) = p.s
    ELSE IF p.k = "Expr"
    THEN /\ e.k = "Expr"
         /\ e.s = p.s
         /\ Len(e.args) = Len(p.args)
         /\ \A i \in 1..Len(p.args) : match(p.args[i], e.args[i])
    ELSE p = e

\* The binding environment of a successful match: the sub-expressions at
\* the pattern's blanks, left to right.
RECURSIVE bindings(_, _)
RECURSIVE bind_args(_, _, _)
bindings(p, e) ==
    IF p.k = "Blank" THEN <<e>>
    ELSE IF p.k = "Expr" THEN bind_args(p, e, 1)
    ELSE <<>>

bind_args(p, e, i) ==
    IF i > Len(p.args) THEN <<>>
    ELSE bindings(p.args[i], e.args[i]) \o bind_args(p, e, i + 1)

(***************************************************************************)
(* The world a handler runs in, and what a handler call produces.          *)
(***************************************************************************)
\* oracle: what the operating system answers during the call (the exit code
\* of a spawned process, the number of bytes a collection frees).
World(oracle) ==
    [have |-> have_facility, digits |-> int_max_str_digits, environ |-> environ,
     oracle |-> oracle, argv |-> sys_argv, maxsize |-> sys_maxsize, heap |-> heap]

\* ret: the returned expression (NoneValue: no return value); msgs: the
\* messages handed to evaluation.message; exc: the exception that left the
\* handler ("" if none); digits: the interpreter limit afterwards;
\* effects: the operating-system calls made.
Return(ret, msgs, w) ==
    [ret |-> ret, msgs |-> msgs, exc |-> "", digits |-> w.digits, effects |-> <<>>]

Raise(exc, msgs, w) ==
    [ret |-> NoneValue, msgs |-> msgs, exc |-> exc, digits |-> w.digits, effects |-> <<>>]

Effect(r, effect) == [r EXCEPT !.effects = @ \o <<effect>>]

Message(symbol, tag, text, args) ==
    [symbol |-> symbol, tag |-> tag, text |-> text, args |-> args]

(***************************************************************************)
(* class MaxLengthIntStringConversion(Predefined)                          *)
(***************************************************************************)
MaxLengthIntStringConversion_name == "$MaxLengthIntStringConversion"

MaxLengthIntStringConversion_messages_inv == "<1> is not 0 or an Integer value >640."

\* The bound the AttributeError branch of eval_set compares against.
DigitsThreshold == 640

\* The width of a C int.  It is 32 in the interpreter; the model scales it
\* down so that a value beyond it fits the integers of the model checker.
CIntBits == 16

C_INT_MAX == 2^(CIntBits - 1) - 1

\* sys.set_int_max_str_digits(maxdigits) as eval_set can see it end: the
\* attribute is missing before Python 3.11 (AttributeError); the argument
\* is converted to a C int (OverflowError beyond its width); 0 and values
\* from the interpreter's threshold on are stored, anything else is a
\* ValueError.
sys_set_int_max_str_digits(w, maxdigits) ==
    IF ~w.have THEN "AttributeError"
    ELSE IF maxdigits > C_INT_MAX \/ maxdigits < -C_INT_MAX - 1 THEN "OverflowError"
    ELSE IF maxdigits = 0 \/ maxdigits >= DigitsThreshold THEN "ok"
    ELSE "ValueError"

MaxLengthIntStringConversion_evaluate(w) ==
    IF w.have THEN Integer(w.digits) ELSE Integer0

inv_message(expr) ==
    Message(MaxLengthIntStringConversion_name, "inv",
            MaxLengthIntStringConversion_messages_inv, <<expr>>)

\* A bug to compare eval_set against: the value to return is read before
\* the new limit is stored.
eval_set_stale(expr, w) ==
    LET reject == Return(MaxLengthIntStringConversion_evaluate(w), <<inv_message(expr)>>, w)
    IN  IF expr.k = "Integer"
        THEN LET r == sys_set_int_max_str_digits(w, expr.n)
             IN  CASE r = "ok" ->
                        Return(MaxLengthIntStringConversion_evaluate(w), <<>>,
                               [w EXCEPT !.digits = expr.n])
                   [] r = "AttributeError" ->
                        Return(Integer0,
                               IF expr.n # 0 /\ expr.n < DigitsThreshold
                               THEN <<inv_message(expr)>> ELSE <<>>, w)
                   [] r = "ValueError" -> reject
                   [] OTHER -> Raise(r, <<>>, w)
        ELSE reject

\* A bug to compare eval_set against: the rejection reports the message and
\* then falls off the end of the method instead of returning a value.
eval_set_noreturn(expr, w) ==
    LET reject == Return(NoneValue, <<inv_message(expr)>>, w)
    IN  IF expr.k = "Integer"
        THEN LET r == sys_set_int_max_str_digits(w, expr.n)
                 w2 == [w EXCEPT !.digits = expr.n]
             IN  CASE r = "ok" ->
                        Return(MaxLengthIntStringConversion_evaluate(w2), <<>>, w2)
                   [] r = "AttributeError" ->
                        Return(Integer0,
                               IF expr.n # 0 /\ expr.n < DigitsThreshold
                               THEN <<inv_message(expr)>> ELSE <<>>, w)
                   [] r = "ValueError" -> reject
                   [] OTHER -> Raise(r, <<>>, w)
        ELSE reject

\* def eval_set(self, expr, evaluation): "Set[$MaxLengthIntStringConversion, expr_]"
MaxLengthIntStringConversion_eval_set(expr, w) ==
    LET reject == Return(MaxLengthIntStringConversion_evaluate(w), <<inv_message(expr)>>, w)
    IN  IF expr.k = "Integer"
        THEN LET r == sys_set_int_max_str_digits(w, expr.n)
                 w2 == [w EXCEPT !.digits = expr.n]
             IN  CASE r = "ok" ->
                        Return(MaxLengthIntStringConversion_evaluate(w2), <<>>, w2)
                   [] r = "AttributeError" ->
                        Return(Integer0,
                               IF expr.n # 0 /\ expr.n < DigitsThreshold
                               THEN <<inv_message(expr)>> ELSE <<>>, w)
                   [] r = "ValueError" -> reject
                   [] OTHER -> Raise(r, <<>>, w)
        ELSE reject

\* A call self.eval_set(*argv): the method takes (expr, evaluation), and
\* Python raises TypeError when a positional argument is missing.
call_eval_set(argv, w) ==
    IF Len(argv) # 2 THEN Raise("TypeError", <<>>, w)
    ELSE MaxLengthIntStringConversion_eval_set(argv[1], w)

\* def eval_setdelayed(self, expr, evaluation): return self.eval_set(expr)
MaxLengthIntStringConversion_eval_setdelayed(expr, w) ==
    call_eval_set(<<expr>>, w)

(***************************************************************************)
(* class Environment(Builtin)                                              *)
(***************************************************************************)
\* A bug to compare eval against: a missing variable reads as the empty
\* string, as os.environ.get(env_var, "") would give.
Environment_eval_get(var, w) ==
    LET env_var == var.s
    IN  Effect(IF env_var \notin DOMAIN w.environ
               THEN Return(String(""), <<>>, w)
               ELSE Return(String(w.environ[env_var]), <<>>, w),
               <<"os.environ", env_var>>)

\* def eval(self, var, evaluation): "Environment[var_String]"
Environment_eval(var, w) ==
    LET env_var == var.s
    IN  Effect(IF env_var \notin DOMAIN w.environ
               THEN Return(SymbolFailed, <<>>, w)
               ELSE Return(String(w.environ[env_var]), <<>>, w),
               <<"os.environ", env_var>>)

(***************************************************************************)
(* class Run(Builtin)                                                      *)
(***************************************************************************)
\* def eval(self, command, evaluation): "Run[command_String]"
Run_eval(command, w) ==
    LET command_str == command.s
    IN  Effect(Return(Integer(w.oracle), <<>>, w), <<"subprocess.call", command_str>>)

(***************************************************************************)
(* class VersionNumber(Predefined), class Machine(Predefined)              *)
(***************************************************************************)
VersionNumber_value == 10

VersionNumber_evaluate(w) == Real(VersionNumber_value)

Machine_evaluate(w) == String("linux")

(***************************************************************************)
(* class Share(Builtin): without psutil both methods collect garbage and   *)
(* return 0; with it they return the difference of two readings of the     *)
(* available memory.                                                       *)
(***************************************************************************)
Share_eval(w) == Effect(Return(Integer(w.oracle), <<>>, w), <<"gc.collect", "">>)

Share_eval_with_symbol(symbol, w) ==
    Effect(Return(Integer(w.oracle), <<>>, w), <<"gc.collect", symbol.s>>)

(***************************************************************************)
(* class ScriptCommandLine(Predefined)                                     *)
(***************************************************************************)
\* A bug to compare index against: the position of the last occurrence.
rindex(list, x) ==
    IF \E i \in 1..Len(list) : list[i] = x
    THEN (CHOOSE i \in 1..Len(list) :
              list[i] = x /\ \A j \in (i + 1)..Len(list) : list[j] # x) - 1
    ELSE -1

\* list.index(x): the position, counted from 0, of the first occurrence;
\* -1 stands for the ValueError raised when there is none.
index(list, x) ==
    IF \E i \in 1..Len(list) : list[i] = x
    THEN (CHOOSE i \in 1..Len(list) :
              list[i] = x /\ \A j \in 1..(i - 1) : list[j] # x) - 1
    ELSE -1

\* to_mathics_list(*parms, elements_conversion_fn=String)
to_mathics_list(parms) == ListExpression([i \in 1..Len(parms) |-> String(parms[i])])

\* def evaluate(self, evaluation): positions of sys.argv count from 0 in
\* the code and from 1 here.
ScriptCommandLine_evaluate(w) ==
    LET dash_index == index(w.argv, "--")
    IN  IF dash_index = -1 THEN ListExpression(<<>>)
        ELSE LET scriptname == IF dash_index = 0 THEN "" ELSE w.argv[dash_index]
                 parms == <<scriptname>> \o SubSeq(w.argv, dash_index + 2, Len(w.argv))
             IN  to_mathics_list(parms)

(***************************************************************************)
(* class SystemWordLength(Predefined).  sys.maxsize and 2**size are        *)
(* integers of any length: a natural number is the sequence of its binary  *)
(* digits, lowest first, without leading zeros.                            *)
(***************************************************************************)
\* 2**n
pow2(n) == [i \in 1..(n + 1) |-> IF i = n + 1 THEN 1 ELSE 0]

\* sys.maxsize where a machine word has w bits: 2**(w - 1) - 1.
maxsize_of_word(w) == [i \in 1..(w - 1) |-> 1]

\* a > b
greater(a, b) ==
    \/ Len(a) > Len(b)
    \/ /\ Len(a) = Len(b)
       /\ \E i \in 1..Len(a) :
              /\ a[i] > b[i]
              /\ \A j \in (i + 1)..Len(a) : a[j] = b[j]

\* size = 128
InitialSize == 128

\* A bug to compare the returned value against: size is not shifted.
size_unshifted(size) == size

\* size << 1
size_shifted(size) == size * 2

\* while not sys.maxsize > 2**size: size >>= 1
RECURSIVE halve(_, _)
halve(maxsize, size) ==
    IF greater(maxsize, pow2(size)) THEN size ELSE halve(maxsize, size \div 2)

\* def evaluate(self, evaluation) -> Integer
SystemWordLength_evaluate(w) == Integer(size_shifted(halve(w.maxsize, InitialSize)))

(***************************************************************************)
(* class MemoryInUse(Builtin).  An object of the heap has a type, the size *)
(* sys.getsizeof gives for it, the elements it iterates over (tuple, list, *)
(* set, frozenset) and its key/value pairs (dict).                         *)
(***************************************************************************)
\* The depth of calls the interpreter allows before it raises
\* RecursionError.  It is 1000 by default; the model scales it down.
RecursionLimit == 3

\* handlers: what the handler of the object's type iterates over; nothing
\* for an object of no type in the table.
\* dict: chain.from_iterable(d.items()), each key followed by its value.
RECURSIVE chain_from_iterable(_)
chain_from_iterable(items) ==
    IF items = <<>> THEN <<>>
    ELSE <<Head(items)[1], Head(items)[2]>> \o chain_from_iterable(Tail(items))

handlers(obj) ==
    CASE obj.type \in {"tuple", "list", "set", "frozenset"} -> obj.elems
      [] obj.type = "dict" -> chain_from_iterable(obj.items)
      [] OTHER -> <<>>

\* A bug to compare sizeof against: an object already seen is counted again.
seen_counts_again(obj) == obj.size

\* if id(obj) in seen: return 0
seen_counts(obj) == 0

\* The sizeof calls in progress, outermost first: each is iterating
\* map(sizeof, objs) and is about to call sizeof on objs[i].
Iteration(objs, i) == [objs |-> objs, i |-> i]

innermost(calls) == calls[Len(calls)]

next_object(calls) == innermost(calls).objs[innermost(calls).i]

advance(calls) == [calls EXCEPT ![Len(calls)].i = @ + 1]

\* sum(map(sizeof, objs)), the recursion of the closure sizeof over seen
\* kept as the list of its calls in progress: s is the total so far.  A
\* call beyond the recursion limit raises RecursionError before its body
\* runs.
RECURSIVE sum_map_sizeof(_, _, _, _)
sum_map_sizeof(h, calls, seen, s) ==
    IF calls = <<>> THEN [s |-> s, seen |-> seen, exc |-> ""]
    ELSE IF innermost(calls).i > Len(innermost(calls).objs)
    THEN sum_map_sizeof(h, SubSeq(calls, 1, Len(calls) - 1), seen, s)
    ELSE IF Len(calls) > RecursionLimit
    THEN [s |-> 0, seen |-> seen, exc |-> "RecursionError"]
    ELSE IF next_object(calls) \in seen
    THEN sum_map_sizeof(h, advance(calls), seen,
                        s + seen_counts(h[next_object(calls)]))
    ELSE sum_map_sizeof(h,
                        Append(advance(calls),
                               Iteration(handlers(h[next_object(calls)]), 1)),
                        seen \cup {next_object(calls)},
                        s + h[next_object(calls)].size)

\* sizeof(obj), called with seen empty.
sizeof(h, obj) == sum_map_sizeof(h, <<Iteration(<<obj>>, 1)>>, {}, 0)

\* The object evaluation.definitions.
DefinitionsObject == "a"

\* def eval_0(self, evaluation) -> Integer: "MemoryInUse[]"
\* sys.getsizeof(0) raises TypeError on an interpreter without it.
MemoryInUse_eval_0(w) ==
    IF ~w.heap.getsizeof THEN Return(IntegerM1, <<>>, w)
    ELSE LET r == sizeof(w.heap.objects, DefinitionsObject)
         IN  IF r.exc # "" THEN Raise(r.exc, <<>>, w)
             ELSE Return(Integer(r.s), <<>>, w)

(***************************************************************************)
(* The rules each class of system.py contributes: the pattern of a         *)
(* method's docstring and the method, or an entry of the class's rules     *)
(* dictionary (a replacement expression, handler "rule").                  *)
(***************************************************************************)
Rule(pattern, handler, rhs) == [pattern |-> pattern, handler |-> handler, rhs |-> rhs]

SymbolMaxLength == Symbol(MaxLengthIntStringConversion_name)

MaxLengthIntStringConversion_rules ==
    << Rule(SymbolMaxLength, "MaxLengthIntStringConversion.evaluate", NoneValue),
       Rule(Expression("Set", <<SymbolMaxLength, Blank("")>>),
            "MaxLengthIntStringConversion.eval_set", NoneValue),
       Rule(Expression("SetDelayed", <<SymbolMaxLength, Blank("")>>),
            "MaxLengthIntStringConversion.eval_setdelayed", NoneValue) >>

\* A bug to compare the pattern of Environment.eval against: the type guard
\* is missing, "Environment[var_]".
Environment_rules_unguarded ==
    << Rule(Expression("Environment", <<Blank("")>>), "Environment.eval", NoneValue) >>

Environment_rules ==
    << Rule(Expression("Environment", <<Blank("String")>>), "Environment.eval", NoneValue) >>

Run_rules ==
    << Rule(Expression("Run", <<Blank("String")>>), "Run.eval", NoneValue) >>

Packages_rules ==
    << Rule(Symbol("$Packages"), "rule",
            ListExpression(<<String("ImportExport"), String("XML"), String("Internal"),
                             String("System"), String("Global")>>)) >>

VersionNumber_rules ==
    << Rule(Symbol("$VersionNumber"), "VersionNumber.evaluate", NoneValue) >>

Machine_rules ==
    << Rule(Symbol("$Machine"), "Machine.evaluate", NoneValue) >>

ScriptCommandLine_rules ==
    << Rule(Symbol("$ScriptCommandLine"), "ScriptCommandLine.evaluate", NoneValue) >>

SystemWordLength_rules ==
    << Rule(Symbol("$SystemWordLength"), "SystemWordLength.evaluate", NoneValue) >>

MemoryInUse_rules ==
    << Rule(Expression("MemoryInUse", <<>>), "MemoryInUse.eval_0", NoneValue) >>

Share_rules ==
    << Rule(Expression("Share", <<>>), "Share.eval", NoneValue),
       Rule(Expression("Share", <<Blank("Symbol")>>), "Share.eval_with_symbol", NoneValue) >>

\* Invoke a rule's handler with the bindings of the match.
Apply(rule, b, w) ==
    CASE rule.handler = "MaxLengthIntStringConversion.evaluate" ->
            Return(MaxLengthIntStringConversion_evaluate(w), <<>>, w)
      [] rule.handler = "MaxLengthIntStringConversion.eval_set" ->
            call_eval_set(<<b[1], "evaluation">>, w)
      [] rule.handler = "MaxLengthIntStringConversion.eval_setdelayed" ->
            MaxLengthIntStringConversion_eval_setdelayed(b[1], w)
      [] rule.handler = "Environment.eval" -> Environment_eval(b[1], w)
      [] rule.handler = "Run.eval" -> Run_eval(b[1], w)
      [] rule.handler = "VersionNumber.evaluate" -> Return(VersionNumber_evaluate(w), <<>>, w)
      [] rule.handler = "Machine.evaluate" -> Return(Machine_evaluate(w), <<>>, w)
      [] rule.handler = "ScriptCommandLine.evaluate" ->
            Return(ScriptCommandLine_evaluate(w), <<>>, w)
      [] rule.handler = "SystemWordLength.evaluate" ->
            Return(SystemWordLength_evaluate(w), <<>>, w)
      [] rule.handler = "MemoryInUse.eval_0" -> MemoryInUse_eval_0(w)
      [] rule.handler = "Share.eval" -> Share_eval(w)
      [] rule.handler = "Share.eval_with_symbol" -> Share_eval_with_symbol(b[1], w)
      [] OTHER -> Return(rule.rhs, <<>>, w)

(***************************************************************************)
(* Definition Store (design section 4.2): per symbol, the attributes and   *)
(* four ordered rule lists.                                                *)
(***************************************************************************)
EmptyDefinition ==
    [attributes |-> {}, ownvalues |-> <<>>, downvalues |-> <<>>,
     subvalues |-> <<>>, upvalues |-> <<>>]

get_or_create(defs, symbol) ==
    IF symbol \in DOMAIN defs THEN defs ELSE defs @@ (symbol :> EmptyDefinition)

get_attributes(defs, symbol) ==
    IF symbol \in DOMAIN defs THEN defs[symbol].attributes ELSE {}

set_attributes(defs, symbol, attributes) ==
    [get_or_create(defs, symbol) EXCEPT ![symbol].attributes = attributes]

\* The symbols an expression mentions at its top: itself if it is a symbol,
\* its head, and the symbols (or heads) of its arguments.
arg_symbols(e) ==
    { IF e.args[i].k = "Symbol" THEN e.args[i].s ELSE get_head_name(e.args[i]) :
        i \in {j \in 1..Len(e.args) : e.args[j].k \in {"Symbol", "Expr"}} }

\* A bug to compare position_class against: a symbol inside the arguments
\* is not looked for.
position_class_own_or_down(symbol, e) ==
    CASE e.k = "Symbol" /\ e.s = symbol -> "own"
      [] e.k = "Expr" /\ e.s = symbol -> "down"
      [] OTHER -> "none"

\* The position class in which an expression (or a pattern) concerns a
\* symbol: bare symbol, symbol as head, symbol inside the arguments.
\* Heads are symbols here, so no expression is in sub-value position.
position_class(symbol, e) ==
    CASE e.k = "Symbol" /\ e.s = symbol -> "own"
      [] e.k = "Expr" /\ e.s = symbol -> "down"
      [] e.k = "Expr" /\ symbol \in arg_symbols(e) -> "up"
      [] OTHER -> "none"

rule_list(def, position) ==
    CASE position = "own" -> def.ownvalues
      [] position = "down" -> def.downvalues
      [] position = "sub" -> def.subvalues
      [] position = "up" -> def.upvalues
      [] OTHER -> <<>>

(***************************************************************************)
(* Rule Registration (design section 4.3): register appends the rule to    *)
(* the list of the pattern's position class.                               *)
(***************************************************************************)
\* A bug to compare register against: the new rule is put in front.
register_prepend(defs, symbol, rule) ==
    LET d == get_or_create(defs, symbol)
        position == position_class(symbol, rule.pattern)
    IN  CASE position = "own" -> [d EXCEPT ![symbol].ownvalues = <<rule>> \o @]
          [] position = "down" -> [d EXCEPT ![symbol].downvalues = <<rule>> \o @]
          [] position = "up" -> [d EXCEPT ![symbol].upvalues = <<rule>> \o @]
          [] OTHER -> d

register(defs, symbol, rule) ==
    LET d == get_or_create(defs, symbol)
        position == position_class(symbol, rule.pattern)
    IN  CASE position = "own" -> [d EXCEPT ![symbol].ownvalues = Append(@, rule)]
          [] position = "down" -> [d EXCEPT ![symbol].downvalues = Append(@, rule)]
          [] position = "up" -> [d EXCEPT ![symbol].upvalues = Append(@, rule)]
          [] OTHER -> d

RECURSIVE register_all(_, _, _)
register_all(defs, symbol, rules) ==
    IF rules = <<>> THEN defs
    ELSE register_all(register(defs, symbol, Head(rules)), symbol, Tail(rules))

\* The log entries of registering a class's rules.
log_of(symbol, rules) ==
    [i \in 1..Len(rules) |->
        [symbol |-> symbol, position |-> position_class(symbol, rules[i].pattern),
         rule |-> rules[i]]]

(***************************************************************************)
(* Dispatch Engine (design section 4.4).                                   *)
(***************************************************************************)
DispatchResult(kind, expr, r, invoked) ==
    [kind |-> kind, expr |-> expr, msgs |-> r.msgs, exc |-> r.exc,
     digits |-> r.digits, effects |-> r.effects, invoked |-> invoked]

\* What the handler's outcome is for the engine: an exception that left the
\* handler, no return value (Unchanged), a reported domain error or the
\* failure sentinel (Failed), a replacement (Rewritten).
outcome_kind(r) ==
    CASE r.exc # "" -> "Exception"
      [] r.ret = NoneValue -> "Unchanged"
      [] r.msgs # <<>> \/ r.ret = SymbolFailed -> "Failed"
      [] OTHER -> "Rewritten"

dispatch(defs, symbol, e, w) ==
    LET rules == IF symbol \in DOMAIN defs
                 THEN rule_list(defs[symbol], position_class(symbol, e)) ELSE <<>>
        hits == {i \in 1..Len(rules) : match(rules[i].pattern, e)}
    IN  IF hits = {} THEN DispatchResult("Unchanged", e, Return(NoneValue, <<>>, w), <<>>)
        ELSE LET first == CHOOSE i \in hits : \A j \in hits : i <= j
                 r == Apply(rules[first], bindings(rules[first].pattern, e), w)
             IN  DispatchResult(outcome_kind(r),
                                IF r.exc = "" /\ r.ret # NoneValue THEN r.ret ELSE e,
                                r, <<rules[first].handler>>)

(***************************************************************************)
(* The state after the system is built: every class of system.py has       *)
(* contributed its rules and attributes to the Definition Store.           *)
(***************************************************************************)
A_CONSTANT == "Constant"

Contributions ==
    << <<MaxLengthIntStringConversion_name, MaxLengthIntStringConversion_rules>>,
       <<"Environment", Environment_rules>>,
       <<"$Machine", Machine_rules>>,
       <<"$Packages", Packages_rules>>,
       <<"Run", Run_rules>>,
       <<"$VersionNumber", VersionNumber_rules>>,
       <<"Share", Share_rules>>,
       <<"$ScriptCommandLine", ScriptCommandLine_rules>>,
       <<"$SystemWordLength", SystemWordLength_rules>>,
       <<"MemoryInUse", MemoryInUse_rules>> >>

RECURSIVE contribute(_, _)
contribute(defs, i) ==
    IF i > Len(Contributions) THEN defs
    ELSE contribute(register_all(defs, Contributions[i][1], Contributions[i][2]), i + 1)

RECURSIVE contribute_log(_)
contribute_log(i) ==
    IF i > Len(Contributions) THEN <<>>
    ELSE log_of(Contributions[i][1], Contributions[i][2]) \o contribute_log(i + 1)

BuiltinDefinitions ==
    set_attributes(contribute(<<>>, 1), MaxLengthIntStringConversion_name, {A_CONSTANT})

NoDispatch ==
    [op |-> "none", symbol |-> "", input |-> NoneValue, before |-> 0, nreg |-> 0,
     res |-> [kind |-> "Unchanged", expr |-> NoneValue, msgs |-> <<>>, exc |-> "",
              digits |-> 0, effects |-> <<>>, invoked |-> <<>>]]

Dispatched(op, symbol, input, res) ==
    [op |-> op, symbol |-> symbol, input |-> input, before |-> int_max_str_digits,
     nreg |-> Len(registered), res |-> res]

DefaultEnviron == ("HOME" :> "/root")

\* Callers of intern, none of them in a call; nothing interned yet.
Callers == {"t1", "t2"}

InternIdle ==
    /\ symbol_table = [ids |-> <<>>, created |-> 0]
    /\ intern_lock = ""
    /\ callers = [c \in Callers |-> [pc |-> "idle", name |-> <<"", "">>, id |-> 0]]
    /\ interned = {}
    /\ raced = {}

\* No evaluation has been asked for.
LoopIdle ==
    /\ loop = [state |-> "Idle", expr |-> NoneValue, steps |-> 0, messages |-> <<>>,
               exc |-> ""]
    /\ previous = [active |-> FALSE, expr |-> NoneValue, origin |-> NoneValue]

\* No call has changed the Definition Store since the system was built.
StoreIdle ==
    /\ store_log = <<>>
    /\ store_before = [op |-> "none", symbol |-> "", defs |-> <<>>]

\* The sizes sys.getsizeof gives for the objects of the heap.
ObjectSizes == [a |-> 48, b |-> 56, c |-> 72]

Object(type, size, elems, items) ==
    [type |-> type, size |-> size, elems |-> elems, items |-> items]

\* The process was started as "mathics".
ArgvIdle == sys_argv = <<"mathics">>

\* The machine has words of 64 bits; $SystemWordLength is not being
\* evaluated.
WordIdle ==
    /\ sys_maxsize = maxsize_of_word(64)
    /\ word = [pc |-> "idle", size |-> 0, result |-> NoneValue]

\* evaluation.definitions is an object that is no container; sizeof has
\* not been called.
HeapIdle ==
    /\ heap = [getsizeof |-> TRUE,
               objects |-> [o \in {DefinitionsObject} |->
                               Object("Definitions", ObjectSizes[o], <<>>, <<>>)]]
    /\ measured = [called |-> FALSE, s |-> 0, seen |-> {}, exc |-> ""]

\* systemsymbols.py is not being imported.
CatalogueIdle == catalogue = [pc |-> 0, globals |-> <<>>, bound |-> <<>>]

\* The process outside the sessions of interest.
HostIdle ==
    /\ ArgvIdle
    /\ WordIdle
    /\ HeapIdle
    /\ CatalogueIdle

(***************************************************************************)
(* Sessions that assign to and read $MaxLengthIntStringConversion.         *)
(***************************************************************************)
\* The limit the interpreter starts with: the default of 4300 digits, or
\* 0 when the limit is switched off.
InitialLimits == {0, 4300}

SetInputs ==
    {Integer(v) : v \in {-1, 0, 10, 639, 640, 641, 650, C_INT_MAX + 1}}
        \cup {String("650"), Symbol("x"), Real(650)}

LimitInit ==
    /\ definitions = BuiltinDefinitions
    /\ registered = contribute_log(1)
    /\ have_facility \in BOOLEAN
    /\ int_max_str_digits \in (IF have_facility THEN InitialLimits ELSE {0})
    /\ accepted = int_max_str_digits
    /\ environ = DefaultEnviron
    /\ last = NoDispatch
    /\ InternIdle
    /\ LoopIdle
    /\ StoreIdle
    /\ HostIdle

\* Dispatch of Set[$MaxLengthIntStringConversion, expr].
SetLimit(expr) ==
    LET res == dispatch(definitions, MaxLengthIntStringConversion_name,
                        Expression("Set", <<SymbolMaxLength, expr>>), World(0))
    IN  /\ last' = Dispatched("Set", MaxLengthIntStringConversion_name, expr, res)
        /\ int_max_str_digits' = res.digits
        /\ accepted' = IF res.exc = "" /\ res.msgs = <<>> /\ expr.k = "Integer"
                       THEN expr.n ELSE accepted
        /\ UNCHANGED <<definitions, registered, have_facility, environ, internVars, loopVars, storeVars, hostVars>>

\* Dispatch of SetDelayed[$MaxLengthIntStringConversion, expr].
SetDelayedLimit(expr) ==
    LET res == dispatch(definitions, MaxLengthIntStringConversion_name,
                        Expression("SetDelayed", <<SymbolMaxLength, expr>>), World(0))
    IN  /\ last' = Dispatched("SetDelayed", MaxLengthIntStringConversion_name, expr, res)
        /\ int_max_str_digits' = res.digits
        /\ accepted' = IF res.exc = "" /\ res.msgs = <<>> /\ expr.k = "Integer"
                       THEN expr.n ELSE accepted
        /\ UNCHANGED <<definitions, registered, have_facility, environ, internVars, loopVars, storeVars, hostVars>>

\* Dispatch of the bare symbol $MaxLengthIntStringConversion.
ReadLimit ==
    LET res == dispatch(definitions, MaxLengthIntStringConversion_name,
                        SymbolMaxLength, World(0))
    IN  /\ last' = Dispatched("Read", MaxLengthIntStringConversion_name, SymbolMaxLength, res)
        /\ int_max_str_digits' = res.digits
        /\ UNCHANGED <<definitions, registered, have_facility, accepted, environ, internVars, loopVars, storeVars, hostVars>>

LimitNext ==
    \/ \E expr \in SetInputs : SetDelayedLimit(expr)
    \/ \E expr \in SetInputs : SetLimit(expr)
    \/ ReadLimit

LimitSpec == LimitInit /\ [][LimitNext]_vars

\* The limit a read returns in the current state.
LimitInForce(digits) == IF have_facility THEN Integer(digits) ELSE Integer0

\* C2: dispatching Set[$MaxLengthIntStringConversion, expr] and
\* SetDelayed[$MaxLengthIntStringConversion, expr] ends with a result
\* expression handed back, never with an exception leaving the handler.
C2_NoExceptionEscapes ==
    last.op \in {"Set", "SetDelayed"} =>
        /\ last.res.exc = ""
        /\ last.res.kind \in {"Rewritten", "Failed"}

\* The domain the message text and the documentation state: 0 or an
\* Integer > 640.
InStatedDomain(expr) == expr.k = "Integer" /\ (expr.n = 0 \/ expr.n > 640)

\* C3: a rejected assignment (a non-Integer, or an Integer outside the
\* stated domain) emits exactly one message, tag inv on
\* $MaxLengthIntStringConversion with the offending expr as argument, and
\* returns the limit that was in force before the assignment.
C3_RejectedEmitsOneInv ==
    (last.op = "Set" /\ ~InStatedDomain(last.input)) =>
        /\ last.res.msgs = <<inv_message(last.input)>>
        /\ last.res.exc = ""
        /\ last.res.expr = LimitInForce(last.before)

\* C4: the accepted domain of Set is exactly 0 or an Integer > 640, on both
\* runtimes: inside it the assignment is accepted without a message, any
\* other Integer is rejected with the inv message.
C4_AcceptedDomainExact ==
    (last.op = "Set" /\ last.input.k = "Integer") =>
        IF InStatedDomain(last.input)
        THEN last.res.msgs = <<>> /\ last.res.exc = ""
        ELSE last.res.msgs = <<inv_message(last.input)>>

\* C5: reading the symbol returns the most recent accepted assignment (the
\* initial value if none); an accepted Set returns the new value; a
\* rejected Set leaves the stored limit unchanged; without the facility
\* the symbol reads 0 and every Set returns 0.
C5_ReadsMostRecentAccepted ==
    /\ have_facility => MaxLengthIntStringConversion_evaluate(World(0)) = Integer(accepted)
    /\ ~have_facility => MaxLengthIntStringConversion_evaluate(World(0)) = Integer0
    /\ last.op = "Read" =>
          /\ last.res.expr = (IF have_facility THEN Integer(accepted) ELSE Integer0)
          /\ last.res.msgs = <<>>
    /\ (last.op = "Set" /\ have_facility /\ last.res.msgs = <<>> /\ last.res.exc = "") =>
          /\ last.res.expr = last.input
          /\ int_max_str_digits = last.input.n
    /\ (last.op = "Set" /\ last.res.msgs # <<>>) =>
          int_max_str_digits = last.before
    /\ (last.op = "Set" /\ ~have_facility) => last.res.expr = Integer0

\* A read that returns 650 after it was assigned in place of the initial limit.
C5_Witness ==
    /\ last.op = "Read"
    /\ have_facility
    /\ accepted = 650
    /\ last.res.expr = Integer(650)

(***************************************************************************)
(* Sessions that register rules and dispatch expressions.                  *)
(***************************************************************************)
\* How many rules a session registers on top of the builtin ones.
MaxRegistrations == 3

\* Overloads of a symbol Foo, each with a handler of its own.
UserRules ==
    { Rule(Expression("Foo", <<Blank("")>>), "Foo.any", Symbol("any")),
      Rule(Expression("Foo", <<Blank("Integer")>>), "Foo.integer", Symbol("integer")),
      Rule(Expression("Foo", <<Blank("String")>>), "Foo.string", Symbol("string")) }

Environments ==
    { <<>>, ("HOME" :> "/root"), ("HOME" :> "$Failed") @@ ("EMPTY" :> "") }

DispatchInputs ==
    { Expression("Foo", <<Integer(21)>>), Expression("Foo", <<String("x")>>),
      Expression("Foo", <<Symbol("x")>>), Expression("Foo", <<Integer(1), Integer(2)>>),
      Expression("Environment", <<String("HOME")>>),
      Expression("Environment", <<String("EMPTY")>>),
      Expression("Environment", <<String("NOPE")>>),
      Expression("Environment", <<Integer(5)>>),
      Expression("Environment", <<Symbol("HOME")>>),
      Expression("Environment", <<String("HOME"), String("EMPTY")>>),
      Expression("Environment", <<>>),
      Expression("Run", <<String("date")>>), Expression("Run", <<Integer(5)>>),
      Expression("Run", <<>>), Expression("Run", <<String("date"), String("date")>>),
      Expression("Share", <<>>), Expression("Share", <<Symbol("x")>>),
      Expression("Share", <<Integer(1)>>),
      Symbol("$Machine"), Symbol("$Packages"), Symbol("$VersionNumber"), Symbol("Foo") }

\* Exit codes and byte counts the operating system may answer with.
Oracles == {0, 1}

\* The symbol an expression is dispatched on: itself, or its head.
dispatch_symbol(e) == e.s

Init ==
    /\ definitions = BuiltinDefinitions
    /\ registered = contribute_log(1)
    /\ have_facility = TRUE
    /\ int_max_str_digits = 4300
    /\ accepted = int_max_str_digits
    /\ environ \in Environments
    /\ last = NoDispatch
    /\ InternIdle
    /\ LoopIdle
    /\ StoreIdle
    /\ HostIdle

Register(symbol, rule) ==
    /\ Len(registered) < Len(contribute_log(1)) + MaxRegistrations
    /\ definitions' = register(definitions, symbol, rule)
    /\ registered' = registered \o log_of(symbol, <<rule>>)
    /\ UNCHANGED <<have_facility, int_max_str_digits, accepted, environ, last, internVars, loopVars, storeVars, hostVars>>

\* Only a process spawn and a memory reading have more than one answer.
OraclesFor(e) == IF e.s \in {"Run", "Share"} THEN Oracles ELSE {0}

Dispatch(e, oracle) ==
    LET res == dispatch(definitions, dispatch_symbol(e), e, World(oracle))
    IN  /\ last' = Dispatched("Dispatch", dispatch_symbol(e), e, res)
        /\ int_max_str_digits' = res.digits
        /\ UNCHANGED <<definitions, registered, have_facility, accepted, environ, internVars, loopVars, storeVars, hostVars>>

Next ==
    \/ \E rule \in UserRules : Register("Foo", rule)
    \/ \E e \in DispatchInputs : \E oracle \in OraclesFor(e) : Dispatch(e, oracle)

Spec == Init /\ [][Next]_vars

\* The register() calls made before the last dispatch, in call order, whose
\* rule is in the list that a dispatch of e on symbol walks and whose
\* pattern matches e.
MatchingRegistrations(symbol, e) ==
    { i \in 1..last.nreg :
        /\ registered[i].symbol = symbol
        /\ registered[i].position = position_class(symbol, e)
        /\ match(registered[i].rule.pattern, e) }

\* C1: if rules R1 and R2 were registered in that order on the same symbol
\* and position class and both match the dispatched expression, the
\* dispatch invokes the handler of R1 (the earliest registered match) and
\* no other, whatever was registered later or dispatched before.
C1_FirstMatchWins ==
    (last.op = "Dispatch" /\ MatchingRegistrations(last.symbol, last.input) # {}) =>
        \A i \in MatchingRegistrations(last.symbol, last.input) :
            (\A j \in MatchingRegistrations(last.symbol, last.input) : i <= j)
                => last.res.invoked = <<registered[i].rule.handler>>

\* Two different overloads both match the dispatched Foo[21], a third rule
\* was registered after them, and the earlier overload was invoked.
C1_Witness ==
    /\ last.op = "Dispatch"
    /\ last.input = Expression("Foo", <<Integer(21)>>)
    /\ last.nreg = Len(contribute_log(1)) + 3
    /\ \E i, j \in MatchingRegistrations(last.symbol, last.input) :
          /\ i < j
          /\ registered[i].rule.handler # registered[j].rule.handler
          /\ last.res.invoked = <<registered[i].rule.handler>>

\* C6: when no registered rule matches, dispatch returns Unchanged: the
\* expression comes back identical, no handler runs, no message is
\* emitted.  Environment[x] and Run[x] with x not a String, or with an
\* argument count other than one, stay unevaluated and neither look up the
\* environment nor spawn a process.
C6_NoMatchUnchanged ==
    /\ (last.op = "Dispatch" /\ MatchingRegistrations(last.symbol, last.input) = {}) =>
          /\ last.res.kind = "Unchanged"
          /\ last.res.expr = last.input
          /\ last.res.invoked = <<>>
          /\ last.res.msgs = <<>>
    /\ (/\ last.op = "Dispatch"
        /\ last.input.k = "Expr"
        /\ last.input.s \in {"Environment", "Run"}
        /\ ~(Len(last.input.args) = 1 /\ last.input.args[1].k = "String")) =>
          /\ last.res.kind = "Unchanged"
          /\ last.res.expr = last.input
          /\ last.res.invoked = <<>>
          /\ last.res.msgs = <<>>
          /\ last.res.effects = <<>>

\* Environment[5] was dispatched and came back unevaluated.
C6_Witness ==
    /\ last.op = "Dispatch"
    /\ last.input = Expression("Environment", <<Integer(5)>>)
    /\ last.res.kind = "Unchanged"
    /\ last.res.expr = last.input

\* C7: Environment[var] with var a String returns $Failed iff var is not a
\* key of the OS environment, otherwise a String holding that variable's
\* value; no message, no exception; $Failed is not the Unchanged outcome.
C7_EnvironmentFailedIffMissing ==
    (/\ last.op = "Dispatch"
     /\ last.input.k = "Expr"
     /\ last.input.s = "Environment"
     /\ Len(last.input.args) = 1
     /\ last.input.args[1].k = "String") =>
        LET var == last.input.args[1].s
        IN  /\ (last.res.expr = SymbolFailed) <=> (var \notin DOMAIN environ)
            /\ var \in DOMAIN environ => last.res.expr = String(environ[var])
            /\ last.res.msgs = <<>>
            /\ last.res.exc = ""
            /\ last.res.kind # "Unchanged"
            /\ last.res.expr # last.input

\* Environment["NOPE"] was dispatched where NOPE is not set, and gave $Failed.
C7_Witness ==
    /\ last.op = "Dispatch"
    /\ last.input = Expression("Environment", <<String("NOPE")>>)
    /\ "NOPE" \notin DOMAIN environ
    /\ last.res.expr = SymbolFailed
    /\ last.res.kind = "Failed"

(***************************************************************************)
(* Symbol Interner (design section 4.1, locking as in section 5): callers  *)
(* intern names concurrently.  A name is <<context, short name>>; the      *)
(* context "" stands for a name written without one.                       *)
(***************************************************************************)
InternNames == { <<"", "X">>, <<"System", "X">>, <<"Global", "X">> }

\* Symbol("X") is the same as Symbol of X in context System.
ensure_context(name) == IF name[1] = "" THEN <<"System", name[2]>> ELSE name

fully_qualified(name) == name[1] # ""

\* A bug to compare the lock against: creation is not serialized.
lock_not_taken(holder) == TRUE

lock_available(holder) == holder = ""

InternUnchanged ==
    UNCHANGED <<definitions, registered, have_facility, int_max_str_digits,
                accepted, environ, last, loopVars, storeVars, hostVars>>

\* A caller enters intern(name).
InternCall(c, name) ==
    /\ callers[c].pc = "idle"
    /\ callers' = [callers EXCEPT ![c] = [pc |-> "acquire", name |-> name, id |-> 0]]
    /\ raced' = raced \cup
          { ensure_context(name) : d \in
              { d \in Callers \ {c} :
                  /\ callers[d].pc # "idle"
                  /\ ensure_context(callers[d].name) = ensure_context(name)
                  /\ ensure_context(name) \notin DOMAIN symbol_table.ids } }
    /\ UNCHANGED <<symbol_table, intern_lock, interned>>
    /\ InternUnchanged

InternAcquire(c) ==
    /\ callers[c].pc = "acquire"
    /\ lock_available(intern_lock)
    /\ intern_lock' = c
    /\ callers' = [callers EXCEPT ![c].pc = "lookup"]
    /\ UNCHANGED <<symbol_table, interned, raced>>
    /\ InternUnchanged

InternLookup(c) ==
    /\ callers[c].pc = "lookup"
    /\ LET fq == ensure_context(callers[c].name)
       IN  callers' = IF fq \in DOMAIN symbol_table.ids
                      THEN [callers EXCEPT ![c].pc = "release",
                                           ![c].id = symbol_table.ids[fq]]
                      ELSE [callers EXCEPT ![c].pc = "create"]
    /\ UNCHANGED <<symbol_table, intern_lock, interned, raced>>
    /\ InternUnchanged

\* The name was absent: a new identity is made and entered in the table.
InternCreate(c) ==
    /\ callers[c].pc = "create"
    /\ LET fq == ensure_context(callers[c].name)
           id == symbol_table.created + 1
       IN  /\ symbol_table' =
                 [ids |-> [n \in DOMAIN symbol_table.ids \cup {fq} |->
                              IF n = fq THEN id ELSE symbol_table.ids[n]],
                  created |-> id]
           /\ callers' = [callers EXCEPT ![c].pc = "release", ![c].id = id]
    /\ UNCHANGED <<intern_lock, interned, raced>>
    /\ InternUnchanged

InternRelease(c) ==
    /\ callers[c].pc = "release"
    /\ intern_lock' = ""
    /\ interned' = interned \cup {<<c, callers[c].name, callers[c].id>>}
    /\ callers' = [callers EXCEPT ![c].pc = "idle"]
    /\ UNCHANGED <<symbol_table, raced>>
    /\ InternUnchanged

InternInit ==
    /\ definitions = BuiltinDefinitions
    /\ registered = contribute_log(1)
    /\ have_facility = TRUE
    /\ int_max_str_digits = 4300
    /\ accepted = int_max_str_digits
    /\ environ = DefaultEnviron
    /\ last = NoDispatch
    /\ InternIdle
    /\ LoopIdle
    /\ StoreIdle
    /\ HostIdle

InternNext ==
    \E c \in Callers :
        \/ \E name \in InternNames : InternCall(c, name)
        \/ InternAcquire(c)
        \/ InternLookup(c)
        \/ InternCreate(c)
        \/ InternRelease(c)

InternSpec == InternInit /\ [][InternNext]_vars

\* C8: for all fully-qualified names n and m, intern(n) and intern(m) are
\* the same identity iff n = m, across repeated calls and across any
\* interleaving of concurrent callers interning the same absent name.
C8_InternExactlyOnce ==
    \A x, y \in interned :
        (fully_qualified(x[2]) /\ fully_qualified(y[2])) =>
            ((x[3] = y[3]) <=> (x[2] = y[2]))

\* Both callers were in intern for the same absent fully-qualified name at
\* once, and both have returned from it.
C8_Witness ==
    \E n \in raced :
        \A c \in Callers : \E x \in interned : x[1] = c /\ x[2] = n

(***************************************************************************)
(* Evaluation Loop (design section 4.5).  One step of the loop is one      *)
(* pass over the expression: children first, except at held positions,     *)
(* then the expression itself; the pass ends at the first rewrite.         *)
(***************************************************************************)
\* The configured maximum number of rewrite steps of one evaluation.
MaxRewriteSteps == 3

held(attributes, i) ==
    \/ "HoldAll" \in attributes
    \/ "HoldFirst" \in attributes /\ i = 1
    \/ "HoldRest" \in attributes /\ i > 1

PassResult(changed, expr, msgs, exc, digits) ==
    [changed |-> changed, expr |-> expr, msgs |-> msgs, exc |-> exc, digits |-> digits]

\* The up-value dispatches of a compound expression: on the symbol of each
\* argument in turn, until a rule matches.
RECURSIVE dispatch_up(_, _, _, _)
dispatch_up(defs, e, i, w) ==
    IF i > Len(e.args)
    THEN DispatchResult("Unchanged", e, Return(NoneValue, <<>>, w), <<>>)
    ELSE LET res == IF e.args[i].k \in {"Symbol", "Expr"}
                    THEN dispatch(defs, e.args[i].s, e, w)
                    ELSE DispatchResult("Unchanged", e, Return(NoneValue, <<>>, w), <<>>)
         IN  IF res.invoked # <<>> THEN res ELSE dispatch_up(defs, e, i + 1, w)

\* The dispatches at the top of an expression, position classes in a fixed
\* order: own-value for a bare symbol; down-value, then up-value, for a
\* compound expression.
rewrite_node(defs, e, w, msgs) ==
    LET res == IF e.k = "Symbol" THEN dispatch(defs, e.s, e, w)
               ELSE IF e.k = "Expr"
               THEN LET down == dispatch(defs, e.s, e, w)
                    IN  IF down.invoked # <<>> THEN down ELSE dispatch_up(defs, e, 1, w)
               ELSE DispatchResult("Unchanged", e, Return(NoneValue, <<>>, w), <<>>)
    IN  PassResult(res.kind \in {"Rewritten", "Failed"} /\ res.expr # e,
                   res.expr, msgs \o res.msgs, res.exc, res.digits)

\* One pass over e from its i-th argument on: the arguments that are not
\* held, left to right, each passed over in turn, then e itself.  msgs are
\* the messages of the positions already passed without a rewrite.
RECURSIVE pass(_, _, _, _, _)
pass(defs, e, i, w, msgs) ==
    IF e.k # "Expr" \/ i > Len(e.args) THEN rewrite_node(defs, e, w, msgs)
    ELSE IF held(get_attributes(defs, e.s), i) THEN pass(defs, e, i + 1, w, msgs)
    ELSE LET r == pass(defs, e.args[i], 1, w, <<>>)
         IN  IF r.changed \/ r.exc # ""
             THEN PassResult(r.changed, [e EXCEPT !.args[i] = r.expr],
                             msgs \o r.msgs, r.exc, r.digits)
             ELSE pass(defs, e, i + 1, [w EXCEPT !.digits = r.digits], msgs \o r.msgs)

rewrite_once(defs, e, w) == pass(defs, e, 1, w, <<>>)

\* The warning reported when the step bound stops an evaluation.
BoundWarning == Message("$IterationLimit", "itlim", "Iteration limit exceeded.", <<>>)

\* Set holds its first argument and SetDelayed both: the assignment
\* $MaxLengthIntStringConversion = 10 of the docstring reaches eval_set with
\* the symbol unevaluated.
EvalDefinitions ==
    set_attributes(set_attributes(BuiltinDefinitions, "Set", {"HoldFirst"}),
                   "SetDelayed", {"HoldAll"})

\* Own-value rules a session may define: a -> b, b -> a, b -> "done".
OwnRules ==
    { Rule(Symbol("a"), "a.b", Symbol("b")),
      Rule(Symbol("b"), "b.a", Symbol("a")),
      Rule(Symbol("b"), "b.done", String("done")) }

EvalInputs ==
    { Symbol("a"), Symbol("b"),
      ListExpression(<<Symbol("a"), Symbol("$Machine")>>),
      Symbol("$Packages"), Symbol("$VersionNumber"), Symbol("$Machine"),
      SymbolMaxLength,
      Expression("Set", <<SymbolMaxLength, Integer(10)>>),
      Expression("Set", <<SymbolMaxLength, Integer(650)>>),
      Expression("Set", <<SymbolMaxLength, Symbol("a")>>),
      Expression("SetDelayed", <<SymbolMaxLength, Integer(0)>>),
      Expression("Environment", <<String("HOME")>>),
      Expression("Environment", <<String("NOPE")>>),
      Expression("Environment", <<Integer(5)>>) }

Ended == {"Stable", "Bounded-Stop", "Aborted"}

EvalUnchanged ==
    UNCHANGED <<have_facility, accepted, environ, last, internVars, storeVars, hostVars>>

EvalInit ==
    /\ definitions = EvalDefinitions
    /\ registered = contribute_log(1)
    /\ have_facility = TRUE
    /\ int_max_str_digits = 4300
    /\ accepted = int_max_str_digits
    /\ environ = DefaultEnviron
    /\ last = NoDispatch
    /\ InternIdle
    /\ LoopIdle
    /\ StoreIdle
    /\ HostIdle

\* A rule is registered between evaluations.
Define(rule) ==
    /\ loop.state \in Ended \cup {"Idle"}
    /\ Len(registered) < Len(contribute_log(1)) + MaxRegistrations
    /\ definitions' = register(definitions, rule.pattern.s, rule)
    /\ registered' = registered \o log_of(rule.pattern.s, <<rule>>)
    /\ previous' = [active |-> FALSE, expr |-> NoneValue, origin |-> NoneValue]
    /\ loop' = [state |-> "Idle", expr |-> NoneValue, steps |-> 0, messages |-> <<>>,
                exc |-> ""]
    /\ UNCHANGED int_max_str_digits
    /\ EvalUnchanged

\* evaluate(expression, session) is called.
Evaluate(e) ==
    /\ loop.state \in Ended \cup {"Idle"}
    /\ loop' = [state |-> "Pending", expr |-> e, steps |-> 0, messages |-> <<>>,
                exc |-> ""]
    /\ previous' = [active |-> FALSE, expr |-> NoneValue, origin |-> e]
    /\ UNCHANGED <<definitions, registered, int_max_str_digits>>
    /\ EvalUnchanged

\* evaluate is called on the expression a Stable evaluation returned, in
\* the same definition store.
ReEvaluate ==
    /\ loop.state = "Stable"
    /\ ~previous.active
    /\ loop' = [state |-> "Pending", expr |-> loop.expr, steps |-> 0,
                messages |-> <<>>, exc |-> ""]
    /\ previous' = [previous EXCEPT !.active = TRUE, !.expr = loop.expr]
    /\ UNCHANGED <<definitions, registered, int_max_str_digits>>
    /\ EvalUnchanged

Begin ==
    /\ loop.state = "Pending"
    /\ loop' = [loop EXCEPT !.state = "Rewriting"]
    /\ UNCHANGED <<definitions, registered, int_max_str_digits, previous>>
    /\ EvalUnchanged

\* The loop after a pass with result r: an exception that left a handler
\* ends the evaluation; a pass without a rewrite is Stable; a rewrite
\* beyond the step bound is Bounded-Stop, with the last expression kept
\* and a warning reported; any other rewrite replaces the expression.
loop_step(l, r) ==
    CASE r.exc # "" ->
            [l EXCEPT !.state = "Aborted", !.exc = r.exc, !.messages = @ \o r.msgs]
      [] ~r.changed ->
            [l EXCEPT !.state = "Stable", !.messages = @ \o r.msgs]
      [] l.steps >= MaxRewriteSteps ->
            [l EXCEPT !.state = "Bounded-Stop", !.messages = @ \o <<BoundWarning>>]
      [] OTHER ->
            [l EXCEPT !.expr = r.expr, !.steps = @ + 1, !.messages = @ \o r.msgs]

Step ==
    /\ loop.state = "Rewriting"
    /\ LET r == rewrite_once(definitions, loop.expr, World(0))
       IN  /\ loop' = loop_step(loop, r)
           /\ int_max_str_digits' = r.digits
    /\ UNCHANGED <<definitions, registered, previous>>
    /\ EvalUnchanged

EvalNext ==
    \/ \E rule \in OwnRules : Define(rule)
    \/ \E e \in EvalInputs : Evaluate(e)
    \/ ReEvaluate
    \/ Begin
    \/ Step

EvalSpec == EvalInit /\ [][EvalNext]_vars

\* C9: when evaluate returns e in state Stable, evaluating e again in the
\* same definition store returns e itself, Stable, with no rewrite and no
\* message.
C9_StableIsFixpoint ==
    previous.active =>
        /\ loop.expr = previous.expr
        /\ loop.steps = 0
        /\ loop.state \in {"Pending", "Rewriting", "Stable"}
        /\ loop.messages = <<>>

\* The value returned by the rejected assignment
\* $MaxLengthIntStringConversion = 10 was evaluated again and is Stable.
C9_Witness ==
    /\ previous.active
    /\ previous.origin = Expression("Set", <<SymbolMaxLength, Integer(10)>>)
    /\ previous.expr = Integer(4300)
    /\ loop.state = "Stable"

\* C10: every evaluation ends Stable or Bounded-Stop within the configured
\* number of rewrite steps; Bounded-Stop returns the last expression with
\* a reported warning; no evaluation ends in a fatal error.
C10_LoopEndsWithinBound ==
    /\ loop.steps <= MaxRewriteSteps
    /\ loop.state \in {"Idle", "Pending", "Rewriting", "Stable", "Bounded-Stop"}
    /\ loop.exc = ""
    /\ loop.state = "Bounded-Stop" =>
          \E i \in 1..Len(loop.messages) : loop.messages[i] = BoundWarning

(***************************************************************************)
(* Sessions that change the Definition Store (design section 4.2):         *)
(* register, set_attributes and clear, with dispatches in between.         *)
(***************************************************************************)
\* How many calls of a session change the store.
MaxStoreOps == 2

StoreSymbols == {"Foo", MaxLengthIntStringConversion_name}

\* A bug to compare clear against: the rules go, the attributes stay.
clear_rules_only(defs, symbol) ==
    [get_or_create(defs, symbol) EXCEPT
        ![symbol] = [EmptyDefinition EXCEPT !.attributes = get_attributes(defs, symbol)]]

\* clear(symbol) removes all rules and resets attributes.
clear(defs, symbol) ==
    [get_or_create(defs, symbol) EXCEPT ![symbol] = EmptyDefinition]

\* The rules a session registers, each on its symbol: a down-value and an
\* own-value of Foo, and once more the rule system.py gives
\* $MaxLengthIntStringConversion for Set.
StoreRules ==
    { <<"Foo", Rule(Expression("Foo", <<Blank("Integer")>>), "Foo.integer", Symbol("integer"))>>,
      <<"Foo", Rule(Symbol("Foo"), "Foo.own", Symbol("own"))>>,
      <<MaxLengthIntStringConversion_name, MaxLengthIntStringConversion_rules[2]>> }

StoreAttributes ==
    { <<"Foo", {"HoldAll"}>>, <<MaxLengthIntStringConversion_name, {A_CONSTANT}>> }

\* The expressions a session dispatches, each on the symbol it is, on its
\* head and on the symbols of its arguments.
StoreInputs ==
    { Expression("Foo", <<Integer(21)>>), Symbol("Foo"),
      Expression("Environment", <<String("HOME")>>),
      SymbolMaxLength,
      Expression("Set", <<SymbolMaxLength, Integer(650)>>),
      Expression("SetDelayed", <<SymbolMaxLength, Integer(0)>>),
      Expression("MemoryInUse", <<>>), Expression("Share", <<>>),
      Symbol("$Packages"), Symbol("$SystemWordLength") }

dispatch_symbols(e) == {e.s} \cup arg_symbols(e)

StoreCall(op, symbol) == [op |-> op, symbol |-> symbol]

StoreOp(op, symbol) == [op |-> op, symbol |-> symbol, defs |-> definitions]

StoreUnchanged ==
    UNCHANGED <<have_facility, accepted, environ, internVars, loopVars, hostVars>>

StoreInit ==
    /\ definitions = BuiltinDefinitions
    /\ registered = contribute_log(1)
    /\ have_facility = TRUE
    /\ int_max_str_digits = 4300
    /\ accepted = int_max_str_digits
    /\ environ = DefaultEnviron
    /\ last = NoDispatch
    /\ InternIdle
    /\ LoopIdle
    /\ StoreIdle
    /\ HostIdle

StoreRegister(symbol, rule) ==
    /\ Len(store_log) < MaxStoreOps
    /\ definitions' = register(definitions, symbol, rule)
    /\ registered' = registered \o log_of(symbol, <<rule>>)
    /\ store_log' = Append(store_log, StoreCall("register", symbol))
    /\ store_before' = StoreOp("register", symbol)
    /\ UNCHANGED <<int_max_str_digits, last>>
    /\ StoreUnchanged

StoreSetAttributes(symbol, attributes) ==
    /\ Len(store_log) < MaxStoreOps
    /\ definitions' = set_attributes(definitions, symbol, attributes)
    /\ store_log' = Append(store_log, StoreCall("set_attributes", symbol))
    /\ store_before' = StoreOp("set_attributes", symbol)
    /\ UNCHANGED <<registered, int_max_str_digits, last>>
    /\ StoreUnchanged

StoreClear(symbol) ==
    /\ Len(store_log) < MaxStoreOps
    /\ definitions' = clear(definitions, symbol)
    /\ store_log' = Append(store_log, StoreCall("clear", symbol))
    /\ store_before' = StoreOp("clear", symbol)
    /\ UNCHANGED <<registered, int_max_str_digits, last>>
    /\ StoreUnchanged

\* dispatch(symbol, expression, context).  No handler of system.py writes
\* to evaluation.definitions: the store after the call is the store before.
StoreDispatch(symbol, e, oracle) ==
    LET res == dispatch(definitions, symbol, e, World(oracle))
    IN  /\ last' = Dispatched("Dispatch", symbol, e, res)
        /\ int_max_str_digits' = res.digits
        /\ store_before' = StoreOp("dispatch", symbol)
        /\ UNCHANGED <<definitions, registered, store_log>>
        /\ StoreUnchanged

StoreNext ==
    \/ \E sr \in StoreRules : StoreRegister(sr[1], sr[2])
    \/ \E sa \in StoreAttributes : StoreSetAttributes(sa[1], sa[2])
    \/ \E symbol \in StoreSymbols : StoreClear(symbol)
    \/ \E e \in StoreInputs : \E symbol \in dispatch_symbols(e) :
          \E oracle \in OraclesFor(e) : StoreDispatch(symbol, e, oracle)

StoreSpec == StoreInit /\ [][StoreNext]_vars

\* clear(symbol) was called and no registration or attribute change on the
\* symbol has followed it.
ClearedSince(symbol) ==
    \E i \in 1..Len(store_log) :
        /\ store_log[i] = StoreCall("clear", symbol)
        /\ \A j \in (i + 1)..Len(store_log) : store_log[j].symbol # symbol

\* C11: after clear(symbol), until a registration or attribute change on
\* the symbol, its attributes are the empty set and a dispatch of any
\* expression on it returns Unchanged; the clear leaves the definitions of
\* all other symbols as they were.
C11_ClearedSymbolHasNothing ==
    /\ \A symbol \in StoreSymbols :
          ClearedSince(symbol) =>
              /\ get_attributes(definitions, symbol) = {}
              /\ \A e \in StoreInputs :
                    LET res == dispatch(definitions, symbol, e, World(0))
                    IN  /\ res.kind = "Unchanged"
                        /\ res.invoked = <<>>
                        /\ res.expr = e
    /\ (last.op = "Dispatch" /\ store_before.op = "dispatch"
            /\ ClearedSince(last.symbol)) =>
          /\ last.res.kind = "Unchanged"
          /\ last.res.expr = last.input
    /\ store_before.op = "clear" =>
          \A other \in DOMAIN store_before.defs \ {store_before.symbol} :
              /\ other \in DOMAIN definitions
              /\ definitions[other] = store_before.defs[other]

\* $MaxLengthIntStringConversion, which had the attribute Constant and a
\* rule for Set[$MaxLengthIntStringConversion, 650], was cleared, and the
\* dispatch of that expression on it has since come back Unchanged.
C11_Witness ==
    /\ ClearedSince(MaxLengthIntStringConversion_name)
    /\ store_before.op = "dispatch"
    /\ last.symbol = MaxLengthIntStringConversion_name
    /\ last.input = Expression("Set", <<SymbolMaxLength, Integer(650)>>)
    /\ last.res.kind = "Unchanged"
    /\ dispatch(BuiltinDefinitions, last.symbol, last.input, World(0)).invoked # <<>>
    /\ get_attributes(BuiltinDefinitions, last.symbol) = {A_CONSTANT}

\* C12: no handler registered by system.py changes the Definition Store:
\* after a dispatch every symbol's attributes and all four rule lists are
\* what they were before it, and the handler has returned one of
\* Rewritten, Unchanged or Failed.
C12_HandlersLeaveStoreAlone ==
    store_before.op = "dispatch" =>
        /\ definitions = store_before.defs
        /\ last.res.exc = ""
        /\ last.res.kind \in {"Rewritten", "Unchanged", "Failed"}

PositionClasses == {"own", "down", "sub", "up"}

\* The position classes whose list in the Definition holds the rule.
lists_holding(def, rule) ==
    { c \in PositionClasses :
        \E i \in 1..Len(rule_list(def, c)) : rule_list(def, c)[i] = rule }

\* The rules system.py gives through an evaluate method of a Predefined
\* class or through a rules dictionary, each with the symbol of its class.
PredefinedRules ==
    { <<MaxLengthIntStringConversion_name, MaxLengthIntStringConversion_rules[1]>>,
      <<"$Machine", Machine_rules[1]>>,
      <<"$Packages", Packages_rules[1]>>,
      <<"$VersionNumber", VersionNumber_rules[1]>>,
      <<"$ScriptCommandLine", ScriptCommandLine_rules[1]>>,
      <<"$SystemWordLength", SystemWordLength_rules[1]>> }

\* The rules system.py gives through the docstring pattern of a method
\* whose head is the symbol of the class.
HeadRules ==
    { <<"Environment", Environment_rules[1]>>,
      <<"Run", Run_rules[1]>>,
      <<"MemoryInUse", MemoryInUse_rules[1]>> }

\* C13: registration places each rule in the list of its position class and
\* only there.  In the store as built, the rule $Packages and the evaluate
\* handlers of Predefined classes are own-value rules of their symbol;
\* Environment[var_String], Run[command_String] and MemoryInUse[] are
\* down-value rules of their head; Set[$MaxLengthIntStringConversion, expr_]
\* is an up-value rule of $MaxLengthIntStringConversion and no rule of Set.
\* A handler that a dispatch invokes belongs to a rule registered in the
\* position class of the dispatched expression.
C13_RulesGoToTheirPositionClass ==
    /\ \A symbol \in DOMAIN definitions : \A c \in PositionClasses :
          \A i \in 1..Len(rule_list(definitions[symbol], c)) :
              position_class(symbol, rule_list(definitions[symbol], c)[i].pattern) = c
    /\ store_before.op = "register" =>
          LET r == registered[Len(registered)]
          IN  /\ r.symbol = store_before.symbol
              /\ r.position \in lists_holding(definitions[r.symbol], r.rule)
              /\ lists_holding(definitions[r.symbol], r.rule) \
                     lists_holding(get_or_create(store_before.defs, r.symbol)[r.symbol],
                                   r.rule)
                   \subseteq {r.position}
              /\ \A other \in DOMAIN store_before.defs \ {r.symbol} :
                    definitions[other] = store_before.defs[other]
    /\ store_log = <<>> =>
          /\ \A sr \in PredefinedRules : lists_holding(definitions[sr[1]], sr[2]) = {"own"}
          /\ \A sr \in HeadRules : lists_holding(definitions[sr[1]], sr[2]) = {"down"}
          /\ lists_holding(definitions[MaxLengthIntStringConversion_name],
                           MaxLengthIntStringConversion_rules[2]) = {"up"}
          /\ \A symbol \in DOMAIN definitions \ {MaxLengthIntStringConversion_name} :
                lists_holding(definitions[symbol], MaxLengthIntStringConversion_rules[2]) = {}
    /\ (last.op = "Dispatch" /\ last.res.invoked # <<>>) =>
          \E i \in 1..last.nreg :
              /\ registered[i].symbol = last.symbol
              /\ registered[i].rule.handler = last.res.invoked[1]
              /\ match(registered[i].rule.pattern, last.input)
              /\ registered[i].position = position_class(last.symbol, last.input)

\* Set[$MaxLengthIntStringConversion, 650] was dispatched on Set, where it
\* is in down-value position, and no rule fired; the store holds the rule
\* for it as an up-value of $MaxLengthIntStringConversion.
C13_Witness ==
    /\ last.op = "Dispatch"
    /\ last.symbol = "Set"
    /\ last.input = Expression("Set", <<SymbolMaxLength, Integer(650)>>)
    /\ last.res.invoked = <<>>
    /\ lists_holding(definitions[MaxLengthIntStringConversion_name],
                     MaxLengthIntStringConversion_rules[2]) = {"up"}
    /\ dispatch(definitions, MaxLengthIntStringConversion_name, last.input,
                World(0)).invoked = <<"MaxLengthIntStringConversion.eval_set">>

(***************************************************************************)
(* Processes started with an argument vector, in which $ScriptCommandLine  *)
(* is read.                                                                *)
(***************************************************************************)
\* The longest argument vector.
MaxArgs == 4

ArgWords == {"--", "mathics", "script.m"}

RECURSIVE ArgVectors(_)
ArgVectors(n) ==
    IF n = 0 THEN {<<>>}
    ELSE ArgVectors(n - 1) \cup
         { Append(argv, arg) : argv \in {a \in ArgVectors(n - 1) : Len(a) = n - 1},
                               arg \in ArgWords }

ScriptInit ==
    /\ definitions = BuiltinDefinitions
    /\ registered = contribute_log(1)
    /\ have_facility = TRUE
    /\ int_max_str_digits = 4300
    /\ accepted = int_max_str_digits
    /\ environ = DefaultEnviron
    /\ last = NoDispatch
    /\ InternIdle
    /\ LoopIdle
    /\ StoreIdle
    /\ sys_argv \in ArgVectors(MaxArgs)
    /\ WordIdle
    /\ HeapIdle
    /\ CatalogueIdle

\* Dispatch of the bare symbol $ScriptCommandLine.
ReadScriptCommandLine ==
    LET res == dispatch(definitions, "$ScriptCommandLine", Symbol("$ScriptCommandLine"),
                        World(0))
    IN  /\ last' = Dispatched("Dispatch", "$ScriptCommandLine",
                              Symbol("$ScriptCommandLine"), res)
        /\ UNCHANGED <<definitions, registered, have_facility, int_max_str_digits,
                       accepted, environ, internVars, loopVars, storeVars, hostVars>>

ScriptNext == ReadScriptCommandLine

ScriptSpec == ScriptInit /\ [][ScriptNext]_vars

\* The positions of sys_argv, counted from 1, that hold "--".
Dashes == {i \in 1..Len(sys_argv) : sys_argv[i] = "--"}

\* C14: $ScriptCommandLine is the empty list if the argument vector holds
\* no "--"; otherwise, with i the position (from 0) of the first "--", it
\* is the list of Strings whose first element is argv[i-1] (the empty
\* string when i = 0) followed by argv[i+1..] in order and unchanged, of
\* length len(argv) - i, later "--" entries included.
C14_ScriptCommandLine ==
    last.op = "Dispatch" =>
        LET result == last.res.expr
        IN  /\ last.res.exc = ""
            /\ last.res.msgs = <<>>
            /\ result.k = "Expr"
            /\ result.s = "List"
            /\ IF Dashes = {} THEN result.args = <<>>
               ELSE LET i == (CHOOSE d \in Dashes : \A e \in Dashes : d <= e) - 1
                    IN  /\ Len(result.args) = Len(sys_argv) - i
                        /\ result.args[1] = String(IF i = 0 THEN "" ELSE sys_argv[i])
                        /\ \A k \in 1..(Len(sys_argv) - i - 1) :
                              result.args[1 + k] = String(sys_argv[i + 1 + k])

\* $ScriptCommandLine was read in a process started as
\* mathics -- script.m --: the result has three elements, the last of
\* them the second "--".
C14_Witness ==
    /\ last.op = "Dispatch"
    /\ sys_argv = <<"mathics", "--", "script.m", "--">>
    /\ last.res.expr = ListExpression(<<String("mathics"), String("script.m"), String("--")>>)

(***************************************************************************)
(* Machines of every word length, on which $SystemWordLength is            *)
(* evaluated; a step of the session is a test of the loop's condition.     *)
(***************************************************************************)
\* The longest machine word.
MaxWordLength == 128

WordInit ==
    /\ definitions = BuiltinDefinitions
    /\ registered = contribute_log(1)
    /\ have_facility = TRUE
    /\ int_max_str_digits = 4300
    /\ accepted = int_max_str_digits
    /\ environ = DefaultEnviron
    /\ last = NoDispatch
    /\ InternIdle
    /\ LoopIdle
    /\ StoreIdle
    /\ ArgvIdle
    /\ sys_maxsize \in {maxsize_of_word(w) : w \in 1..MaxWordLength}
    /\ word = [pc |-> "idle", size |-> 0, result |-> NoneValue]
    /\ HeapIdle
    /\ CatalogueIdle

WordUnchanged ==
    UNCHANGED <<definitions, registered, have_facility, int_max_str_digits, accepted,
                environ, last, internVars, loopVars, storeVars, sys_argv, sys_maxsize,
                heap, measured, catalogue>>

\* size = 128
WordEvaluate ==
    /\ word.pc = "idle"
    /\ word' = [pc |-> "loop", size |-> InitialSize, result |-> NoneValue]
    /\ WordUnchanged

\* The condition of the while holds: size >>= 1
WordHalve ==
    /\ word.pc = "loop"
    /\ ~greater(sys_maxsize, pow2(word.size))
    /\ word' = [word EXCEPT !.size = word.size \div 2]
    /\ WordUnchanged

\* The condition of the while fails: return Integer(size << 1)
WordReturn ==
    /\ word.pc = "loop"
    /\ greater(sys_maxsize, pow2(word.size))
    /\ word' = [word EXCEPT !.pc = "done", !.result = Integer(size_shifted(word.size))]
    /\ WordUnchanged

WordNext ==
    \/ WordEvaluate
    \/ WordHalve
    \/ WordReturn

\* The interpreter goes on running the method it has entered.
WordSpec == WordInit /\ [][WordNext]_vars /\ WF_vars(WordNext)

\* The word length w of the machine: sys.maxsize = 2^(w-1) - 1.
WordLengthOfMachine == Len(sys_maxsize) + 1

ClaimedWordLengths == {16, 32, 64, 128}

\* C15: on a machine whose word length w is 16, 32, 64 or 128, with
\* sys.maxsize = 2^(w-1) - 1, the halving loop that starts at size = 128
\* terminates, and the result size << 1 equals w.
C15_SystemWordLength ==
    /\ [](WordLengthOfMachine \in ClaimedWordLengths =>
            /\ word.pc = "loop" => word.size >= 1
            /\ word.pc = "done" => word.result = Integer(WordLengthOfMachine))
    /\ (WordLengthOfMachine \in ClaimedWordLengths /\ word.pc = "loop")
           ~> (word.pc = "done")

\* On a machine with words of 32 bits the loop has ended, after the halving
\* steps 128, 64, 32, 16, with the result 32.
C15_Witness ==
    /\ WordLengthOfMachine = 32
    /\ word.pc = "done"
    /\ word.size = 16
    /\ word.result = Integer(32)

(***************************************************************************)
(* Heaps of objects on which MemoryInUse[] is evaluated.  The definitions  *)
(* object may be of any type; the objects it leads to are containers that  *)
(* may hold each other and themselves.                                     *)
(***************************************************************************)
Objects == {"a", "b", "c"}

IterableTypes == {"tuple", "list", "set", "frozenset"}

\* What a container holds: no, one or two objects, one of them twice too.
ElemLists ==
    {<<>>} \cup {<<x>> : x \in Objects} \cup {<<x, y>> : x \in Objects, y \in Objects}

\* What a dict holds: no pair or one key/value pair.
ItemLists == {<<>>} \cup {<< <<k, v>> >> : k \in Objects, v \in Objects}

ObjectsAt(o, types) ==
    {Object("Definitions", ObjectSizes[o], <<>>, <<>>)}
        \cup {Object(t, ObjectSizes[o], elems, <<>>) :
                 t \in types \cap IterableTypes, elems \in ElemLists}
        \cup {Object(t, ObjectSizes[o], <<>>, items) :
                 t \in types \cap {"dict"}, items \in ItemLists}

Heaps ==
    { [o \in Objects |-> IF o = "a" THEN x ELSE IF o = "b" THEN y ELSE z] :
        x \in ObjectsAt("a", IterableTypes \cup {"dict"}),
        y \in ObjectsAt("b", {"list", "dict"}),
        z \in ObjectsAt("c", {"list"}) }

SizeofInit ==
    /\ definitions = BuiltinDefinitions
    /\ registered = contribute_log(1)
    /\ have_facility = TRUE
    /\ int_max_str_digits = 4300
    /\ accepted = int_max_str_digits
    /\ environ = DefaultEnviron
    /\ last = NoDispatch
    /\ InternIdle
    /\ LoopIdle
    /\ StoreIdle
    /\ ArgvIdle
    /\ WordIdle
    /\ heap \in {[getsizeof |-> TRUE, objects |-> h] : h \in Heaps}
                  \cup {[getsizeof |-> FALSE, objects |-> h] :
                           h \in {g \in Heaps : \A o \in Objects : g[o].type = "Definitions"}}
    /\ measured = [called |-> FALSE, s |-> 0, seen |-> {}, exc |-> ""]
    /\ CatalogueIdle

\* Dispatch of MemoryInUse[]; measured keeps what sizeof(definitions) came
\* to, if eval_0 got as far as calling it.
MeasureMemory ==
    LET e == Expression("MemoryInUse", <<>>)
        res == dispatch(definitions, "MemoryInUse", e, World(0))
    IN  /\ last' = Dispatched("Dispatch", "MemoryInUse", e, res)
        /\ measured' = IF heap.getsizeof
                       THEN [called |-> TRUE] @@ sizeof(heap.objects, DefinitionsObject)
                       ELSE measured
        /\ UNCHANGED <<definitions, registered, have_facility, int_max_str_digits,
                       accepted, environ, internVars, loopVars, storeVars, sys_argv,
                       sys_maxsize, word, heap, catalogue>>

SizeofNext == MeasureMemory

SizeofSpec == SizeofInit /\ [][SizeofNext]_vars

\* The objects a container holds: elements, keys and values.
contents(obj) ==
    {obj.elems[i] : i \in 1..Len(obj.elems)}
        \cup {obj.items[i][1] : i \in 1..Len(obj.items)}
        \cup {obj.items[i][2] : i \in 1..Len(obj.items)}

\* The objects reachable from those of S through containers.
RECURSIVE Reachable(_, _)
Reachable(h, S) ==
    LET more == S \cup UNION {contents(h[o]) : o \in S}
    IN  IF more = S THEN S ELSE Reachable(h, more)

RECURSIVE SumOfSizes(_, _)
SumOfSizes(h, S) ==
    IF S = {} THEN 0
    ELSE LET o == CHOOSE x \in S : TRUE
         IN  h[o].size + SumOfSizes(h, S \ {o})

\* The number of objects in the longest chain that starts at obj, passes
\* through none of visited and goes from each object to one it holds.
RECURSIVE LongestChain(_, _, _)
LongestChain(h, obj, visited) ==
    LET next == contents(h[obj]) \ (visited \cup {obj})
        below == {LongestChain(h, o, visited \cup {obj}) : o \in next}
    IN  1 + (IF below = {} THEN 0 ELSE CHOOSE n \in below : \A m \in below : n >= m)

Binding(line, constant, name) == [line |-> line, constant |-> constant, name |-> name]

Catalogue ==
    << Binding(26, "Aborted", <<"System", "$Aborted">>),
       Binding(27, "Accuracy", <<"System", "Accuracy">>),
       Binding(28, "All", <<"System", "All">>),
       Binding(29, "Alternatives", <<"System", "Alternatives">>),
       Binding(30, "And", <<"System", "And">>),
       Binding(31, "Append", <<"System", "Append">>),
       Binding(32, "Apply", <<"System", "Apply">>),
       Binding(33, "ArcCos", <<"System", "ArcCos">>),
       Binding(34, "ArcSin", <<"System", "ArcSin">>),
       Binding(35, "ArcTan", <<"System", "ArcTan">>),
       Binding(36, "Association", <<"System", "Association">>),
       Binding(37, "Assumptions", <<"System", "$Assumptions">>),
       Binding(38, "Attributes", <<"System", "Attributes">>),
       Binding(39, "Automatic", <<"System", "Automatic">>),
       Binding(40, "Blank", <<"System", "Blank">>),
       Binding(41, "BlankNullSequence", <<"System", "BlankNullSequence">>),
       Binding(42, "BlankSequence", <<"System", "BlankSequence">>),
       Binding(43, "Blend", <<"System", "Blend">>),
       Binding(44, "Break", <<"System", "Break">>),
       Binding(45, "ByteArray", <<"System", "ByteArray">>),
       Binding(46, "C", <<"System", "C">>),
       Binding(47, "Catalan", <<"System", "Cases">>),
       Binding(48, "Catalan", <<"System", "Catalan">>),
       Binding(49, "Ceiling", <<"System", "Ceiling">>),
       Binding(50, "ClusteringComponents", <<"System", "ClusteringComponents">>),
       Binding(51, "ColorConvert", <<"System", "ColorConvert">>),
       Binding(52, "ColorData", <<"System", "ColorData">>),
       Binding(53, "ColorQuantize", <<"System", "ColorQuantize">>),
       Binding(54, "Compile", <<"System", "Compile">>),
       Binding(55, "CompiledFunction", <<"System", "CompiledFunction">>),
       Binding(56, "Complex", <<"System", "Complex">>),
       Binding(57, "ComplexInfinity", <<"System", "ComplexInfinity">>),
       Binding(58, "Condition", <<"System", "Condition">>),
       Binding(59, "ConditionalExpression", <<"System", "ConditionalExpression">>),
       Binding(60, "Conjugate", <<"System", "Conjugate">>),
       Binding(61, "ContainsOnly", <<"System", "ContainsOnly">>),
       Binding(62, "Context", <<"System", "$Context">>),
       Binding(63, "ContextPath", <<"System", "$ContextPath">>),
       Binding(64, "Continue", <<"System", "Continue">>),
       Binding(65, "Cos", <<"System", "Cos">>),
       Binding(66, "Cosh", <<"System", "Cosh">>),
       Binding(67, "Cot", <<"System", "Cot">>),
       Binding(68, "Coth", <<"System", "Coth">>),
       Binding(69, "Covariance", <<"System", "Covariance">>),
       Binding(70, "D", <<"System", "D">>),
       Binding(71, "Default", <<"System", "Default">>),
       Binding(72, "Definition", <<"System", "Definition">>),
       Binding(73, "Derivative", <<"System", "Derivative">>),
       Binding(74, "DirectedInfinity", <<"System", "DirectedInfinity">>),
       Binding(75, "Dispatch", <<"System", "Dispatch">>),
       Binding(76, "Dot", <<"System", "Dot">>),
       Binding(77, "DownValues", <<"System", "DownValues">>),
       Binding(78, "E", <<"System", "E">>),
       Binding(79, "EdgeForm", <<"System", "EdgeForm">>),
       Binding(80, "Equal", <<"System", "Equal">>),
       Binding(81, "Equivalent", <<"System", "Equivalent">>),
       Binding(82, "EulerGamma", <<"System", "EulerGamma">>),
       Binding(83, "ExactNumberQ", <<"System", "ExactNumberQ">>),
       Binding(84, "ExpandAll", <<"System", "ExpandAll">>),
       Binding(85, "Export", <<"System", "Export">>),
       Binding(86, "ExportString", <<"System", "ExportString">>),
       Binding(87, "FaceForm", <<"System", "FaceForm">>),
       Binding(88, "Factorial", <<"System", "Factorial">>),
       Binding(89, "Failed", <<"System", "$Failed">>),
       Binding(90, "FindClusters", <<"System", "FindClusters">>),
       Binding(91, "Floor", <<"System", "Floor">>),
       Binding(92, "Format", <<"System", "Format">>),
       Binding(93, "FractionBox", <<"System", "FractionBox">>),
       Binding(94, "FullForm", <<"System", "FullForm">>),
       Binding(95, "Function", <<"System", "Function">>),
       Binding(96, "Gamma", <<"System", "Gamma">>),
       Binding(97, "Get", <<"System", "Get">>),
       Binding(98, "GoldenRatio", <<"System", "GoldenRatio">>),
       Binding(99, "Graphics", <<"System", "Graphics">>),
       Binding(100, "Graphics3D", <<"System", "Graphics3D">>),
       Binding(101, "Greater", <<"System", "Greater">>),
       Binding(102, "GreaterEqual", <<"System", "GreaterEqual">>),
       Binding(103, "Grid", <<"System", "Grid">>),
       Binding(104, "Hold", <<"System", "Hold">>),
       Binding(105, "HoldForm", <<"System", "HoldForm">>),
       Binding(106, "HoldPattern", <<"System", "HoldPattern">>),
       Binding(107, "Hue", <<"System", "Hue">>),
       Binding(108, "If", <<"System", "If">>),
       Binding(109, "Im", <<"System", "Im">>),
       Binding(110, "Image", <<"System", "Image">>),
       Binding(111, "Implies", <<"System", "Implies">>),
       Binding(112, "In", <<"System", "In">>),
       Binding(113, "Indeterminate", <<"System", "Indeterminate">>),
       Binding(114, "Inequality", <<"System", "Inequality">>),
       Binding(115, "Infinity", <<"System", "Infinity">>),
       Binding(116, "Infix", <<"System", "Infix">>),
       Binding(117, "InputForm", <<"System", "InputForm">>),
       Binding(118, "Integer", <<"System", "Integer">>),
       Binding(119, "Integrate", <<"System", "Integrate">>),
       Binding(120, "Left", <<"System", "Left">>),
       Binding(121, "Length", <<"System", "Length">>),
       Binding(122, "Less", <<"System", "Less">>),
       Binding(123, "LessEqual", <<"System", "LessEqual">>),
       Binding(124, "Key", <<"System", "Key">>),
       Binding(125, "Line", <<"System", "Line">>),
       Binding(126, "Log", <<"System", "Log">>),
       Binding(127, "Log10", <<"System", "Log10">>),
       Binding(128, "LogPlot", <<"System", "LogPlot">>),
       Binding(129, "MachinePrecision", <<"System", "MachinePrecision">>),
       Binding(130, "MakeBoxes", <<"System", "MakeBoxes">>),
       Binding(131, "Map", <<"System", "Map">>),
       Binding(132, "MapThread", <<"System", "MapThread">>),
       Binding(133, "MatchQ", <<"System", "MatchQ">>),
       Binding(134, "MatrixQ", <<"System", "MatrixQ">>),
       Binding(135, "MathMLForm", <<"System", "MathMLForm">>),
       Binding(136, "MatrixPower", <<"System", "MatrixPower">>),
       Binding(137, "Max", <<"System", "Max">>),
       Binding(138, "MaxPrecision", <<"System", "$MaxPrecision">>),
       Binding(139, "MaxExtraPrecision", <<"System", "$MaxExtraPrecision">>),
       Binding(140, "Mean", <<"System", "Mean">>),
       Binding(141, "Median", <<"System", "Median">>),
       Binding(142, "MemberQ", <<"System", "MemberQ">>),
       Binding(143, "MessageName", <<"System", "MessageName">>),
       Binding(144, "Messages", <<"System", "Messages">>),
       Binding(145, "Minus", <<"System", "Minus">>),
       Binding(146, "Missing", <<"System", "Missing">>),
       Binding(147, "N", <<"System", "N">>),
       Binding(148, "NIntegrate", <<"System", "NIntegrate">>),
       Binding(149, "NValues", <<"System", "NValues">>),
       Binding(150, "Needs", <<"System", "Needs">>),
       Binding(151, "None", <<"System", "None">>),
       Binding(152, "Norm", <<"System", "Norm">>),
       Binding(153, "Normal", <<"System", "Normal">>),
       Binding(154, "Not", <<"System", "Not">>),
       Binding(155, "Nothing", <<"System", "Nothing">>),
       Binding(156, "NumberForm", <<"System", "NumberForm">>),
       Binding(157, "NumberQ", <<"System", "NumberQ">>),
       Binding(158, "NumericQ", <<"System", "NumericQ">>),
       Binding(159, "O", <<"System", "O">>),
       Binding(160, "OptionValue", <<"System", "OptionValue">>),
       Binding(161, "Optional", <<"System", "Optional">>),
       Binding(162, "Options", <<"System", "Options">>),
       Binding(163, "OptionsPattern", <<"System", "OptionsPattern">>),
       Binding(164, "Or", <<"System", "Or">>),
       Binding(165, "Out", <<"System", "Out">>),
       Binding(166, "OutputForm", <<"System", "OutputForm">>),
       Binding(167, "Overflow", <<"System", "Overflow">>),
       Binding(168, "OwnValues", <<"System", "OwnValues">>),
       Binding(169, "Packages", <<"System", "$Packages">>),
       Binding(170, "Part", <<"System", "Part">>),
       Binding(171, "Pattern", <<"System", "Pattern">>),
       Binding(172, "PatternTest", <<"System", "PatternTest">>),
       Binding(173, "Pi", <<"System", "Pi">>),
       Binding(174, "Piecewise", <<"System", "Piecewise">>),
       Binding(175, "Plot", <<"System", "Plot">>),
       Binding(176, "Point", <<"System", "Point">>),
       Binding(177, "Power", <<"System", "Power">>),
       Binding(178, "Polygon", <<"System", "Polygon">>),
       Binding(179, "PossibleZeroQ", <<"System", "PossibleZeroQ">>),
       Binding(180, "Precision", <<"System", "Precision">>),
       Binding(181, "Quantity", <<"System", "Quantity">>),
       Binding(182, "Quiet", <<"System", "Quiet">>),
       Binding(183, "Quotient", <<"System", "Quotient">>),
       Binding(184, "QuotientRemainder", <<"System", "QuotientRemainder">>),
       Binding(185, "RGBColor", <<"System", "RGBColor">>),
       Binding(186, "RandomComplex", <<"System", "RandomComplex">>),
       Binding(187, "RandomReal", <<"System", "RandomReal">>),
       Binding(188, "Rational", <<"System", "Rational">>),
       Binding(189, "Re", <<"System", "Re">>),
       Binding(190, "Real", <<"System", "Real">>),
       Binding(191, "RealDigits", <<"System", "RealDigits">>),
       Binding(192, "Repeated", <<"System", "Repeated">>),
       Binding(193, "RepeatedNull", <<"System", "RepeatedNull">>),
       Binding(194, "Return", <<"System", "Return">>),
       Binding(195, "Reverse", <<"System", "Reverse">>),
       Binding(196, "Right", <<"System", "Right">>),
       Binding(197, "Round", <<"System", "Round">>),
       Binding(198, "Row", <<"System", "Row">>),
       Binding(199, "RowBox", <<"System", "RowBox">>),
       Binding(200, "Rule", <<"System", "Rule">>),
       Binding(201, "RuleDelayed", <<"System", "RuleDelayed">>),
       Binding(202, "SameQ", <<"System", "SameQ">>),
       Binding(203, "Sequence", <<"System", "Sequence">>),
       Binding(204, "Series", <<"System", "Series">>),
       Binding(205, "SeriesData", <<"System", "SeriesData">>),
       Binding(206, "Set", <<"System", "Set">>),
       Binding(207, "Sign", <<"System", "Sign">>),
       Binding(208, "Simplify", <<"System", "Simplify">>),
       Binding(209, "Sin", <<"System", "Sin">>),
       Binding(210, "Sinh", <<"System", "Sinh">>),
       Binding(211, "Slot", <<"System", "Slot">>),
       Binding(212, "SparseArray", <<"System", "SparseArray">>),
       Binding(213, "Split", <<"System", "Split">>),
       Binding(214, "Sqrt", <<"", "System'Sqrt">>),
       Binding(215, "SqrtBox", <<"System", "SqrtBox">>),
       Binding(216, "StandardDeviation", <<"System", "StandardDeviation">>),
       Binding(217, "StandardForm", <<"System", "StandardForm">>),
       Binding(218, "StringForm", <<"System", "StringForm">>),
       Binding(219, "StringInsert", <<"System", "StringInsert">>),
       Binding(220, "StringJoin", <<"System", "StringJoin">>),
       Binding(221, "StringPosition", <<"System", "StringPosition">>),
       Binding(222, "StringQ", <<"System", "StringQ">>),
       Binding(223, "StringRiffle", <<"System", "StringRiffle">>),
       Binding(224, "StringSplit", <<"System", "StringSplit">>),
       Binding(225, "Style", <<"System", "Style">>),
       Binding(226, "SubValues", <<"System", "SubValues">>),
       Binding(227, "SubsetQ", <<"System", "SubsetQ">>),
       Binding(228, "Subtract", <<"System", "Subtract">>),
       Binding(229, "SubscriptBox", <<"System", "SubscriptBox">>),
       Binding(230, "SubsuperscriptBox", <<"System", "SubsuperscriptBox">>),
       Binding(231, "SuperscriptBox", <<"System", "SuperscriptBox">>),
       Binding(232, "Table", <<"System", "Table">>),
       Binding(233, "Tan", <<"System", "Tan">>),
       Binding(234, "Tanh", <<"System", "Tanh">>),
       Binding(235, "TeXForm", <<"System", "TeXForm">>),
       Binding(236, "Throw", <<"System", "Throw">>),
       Binding(237, "Threshold", <<"System", "Threshold">>),
       Binding(238, "ToString", <<"System", "ToString">>),
       Binding(239, "Total", <<"System", "Total">>),
       Binding(240, "TraditionalForm", <<"System", "TraditionalForm">>),
       Binding(241, "Undefined", <<"System", "Undefined">>),
       Binding(242, "Unequal", <<"System", "Unequal">>),
       Binding(243, "Unevaluated", <<"System", "Unevaluated">>),
       Binding(244, "UpValues", <<"System", "UpValues">>),
       Binding(245, "Variance", <<"System", "Variance">>),
       Binding(246, "Xor", <<"System", "Xor">>) >>

\* The system variables of the catalogue: their symbol is called $X.
SystemVariableNames ==
    [ Aborted |-> "$Aborted",
      Assumptions |-> "$Assumptions",
      Context |-> "$Context",
      ContextPath |-> "$ContextPath",
      Failed |-> "$Failed",
      MaxPrecision |-> "$MaxPrecision",
      MaxExtraPrecision |-> "$MaxExtraPrecision",
      Packages |-> "$Packages" ]

\* intern(name) outside any race: the identity the table has for the
\* fully-qualified name, or a new one entered in the table.
intern(table, name) ==
    LET fq == ensure_context(name)
    IN  IF fq \in DOMAIN table.ids
        THEN [table |-> table, id |-> table.ids[fq]]
        ELSE [table |-> [ids |-> table.ids @@ (fq :> table.created + 1),
                         created |-> table.created + 1],
              id |-> table.created + 1]

CatalogueInit ==
    /\ definitions = BuiltinDefinitions
    /\ registered = contribute_log(1)
    /\ have_facility = TRUE
    /\ int_max_str_digits = 4300
    /\ accepted = int_max_str_digits
    /\ environ = DefaultEnviron
    /\ last = NoDispatch
    /\ InternIdle
    /\ LoopIdle
    /\ StoreIdle
    /\ HostIdle

\* The next assignment of the module runs: the name is interned and the
\* constant is bound, or bound anew, in the module's globals.
ImportBinding ==
    /\ catalogue.pc < Len(Catalogue)
    /\ LET b == Catalogue[catalogue.pc + 1]
           r == intern(symbol_table, b.name)
           bound == DOMAIN catalogue.globals
       IN  /\ symbol_table' = r.table
           /\ catalogue' =
                 [pc |-> catalogue.pc + 1,
                  globals |-> [c \in bound \cup {b.constant} |->
                                  IF c = b.constant THEN r.id ELSE catalogue.globals[c]],
                  bound |-> [c \in bound \cup {b.constant} |->
                                IF c = b.constant
                                THEN (IF c \in bound THEN catalogue.bound[c] ELSE 0) + 1
                                ELSE catalogue.bound[c]]]
    /\ UNCHANGED <<definitions, registered, have_facility, int_max_str_digits, accepted,
                   environ, last, intern_lock, callers, interned, raced, loopVars,
                   storeVars, sys_argv, sys_maxsize, word, heap, measured>>

CatalogueNext == ImportBinding

CatalogueSpec == CatalogueInit /\ [][CatalogueNext]_vars

\* The fully-qualified name the constant Symbol<X> is to denote.
catalogue_name(X) ==
    IF X \in DOMAIN SystemVariableNames
    THEN <<"System", SystemVariableNames[X]>>
    ELSE <<"System", X>>

\* C17: every constant Symbol<X> of the catalogue is bound to the interned
\* symbol whose fully-qualified name is X in context System ($X for a
\* system variable), each constant name is bound exactly once, and two
\* different constant names never denote the same symbol.
C17_CatalogueNamesSystemSymbols ==
    /\ \A X \in DOMAIN catalogue.globals :
          /\ catalogue.bound[X] = 1
          /\ catalogue_name(X) \in DOMAIN symbol_table.ids
          /\ symbol_table.ids[catalogue_name(X)] = catalogue.globals[X]
    /\ \A X, Y \in DOMAIN catalogue.globals :
          X # Y => catalogue.globals[X] # catalogue.globals[Y]

====
